---- MODULE Spec2Model ----
(***************************************************************************)
(* Inventory optimisation service: src/model.py (InventoryOptimizer) and   *)
(* src/app.py (the /predict handler).                                      *)
(*                                                                         *)
(* Numbers.  The program computes in IEEE doubles.  A double is modelled   *)
(* as a record [k, v]: k = "num" with v the value in units of 1/Scale      *)
(* (fixed point), k = "inf" with v the sign, or k = "nan".  Arithmetic     *)
(* follows numpy: no operation raises, x/0 is inf or nan, inf*0 is nan,    *)
(* every comparison with nan is false.                                     *)
(*                                                                         *)
(* Libraries.  statsmodels' ExponentialSmoothing and scipy's norm.ppf are  *)
(* not part of the repository.  norm.ppf is a table of the standard        *)
(* normal quantiles.  The Holt-Winters fit is an opaque deterministic      *)
(* function of the series: the variable hw picks one member of a family    *)
(* of such functions, in which a fit may raise or return a model.          *)
(***************************************************************************)
EXTENDS Integers, Sequences, FiniteSets, TLC

VARIABLES
    hw,         \* which deterministic behaviour the fitting library has
    optimizer,  \* the InventoryOptimizer object: service_level, model, forecast_data
    call,       \* the last operation: its arguments, outcome and what it invoked
    response    \* the HTTP response of /predict to the request in progress

vars == <<hw, optimizer, call, response>>

\* no operation in progress
Idle == [op |-> "idle"]

----------------------------------------------------------------------------
(* Bounds of the model *)

MaxLen == 2
MaxPeriods == 1
MaxRecords == 2

(* Program constants *)

Scale == 1000
DaysPerWeek == 7
DefaultLeadTimeDays == 7
DefaultForecastPeriods == 12
DefaultServiceLevel == 950
DefaultBufferMultiplier == 1500
DefaultStoreId == 1
DefaultDeptId == 1
FRI == 4

----------------------------------------------------------------------------
(* Doubles *)

Num(v) == [k |-> "num", v |-> v]
NaN == [k |-> "nan", v |-> 0]
Inf(s) == [k |-> "inf", v |-> s]

IsNaN(a) == a.k = "nan"
IsNum(a) == a.k = "num"

Abs(n) == IF n < 0 THEN -n ELSE n
Sgn(n) == IF n < 0 THEN -1 ELSE IF n > 0 THEN 1 ELSE 0

\* integer division rounding toward zero
TDiv(a, b) == Sgn(a) * Sgn(b) * (Abs(a) \div Abs(b))

RECURSIVE ISqrtIter(_, _, _)
ISqrtIter(n, lo, hi) ==
    IF lo >= hi THEN lo
    ELSE LET mid == (lo + hi + 1) \div 2
         IN IF mid * mid <= n THEN ISqrtIter(n, mid, hi)
            ELSE ISqrtIter(n, lo, mid - 1)

\* floor of the square root of n >= 0
ISqrt(n) == ISqrtIter(n, 0, 46340)

FSign(a) == IF a.k = "num" THEN Sgn(a.v) ELSE a.v

FNeg(a) == IF a.k = "nan" THEN NaN ELSE [k |-> a.k, v |-> -a.v]

FAdd(a, b) ==
    IF a.k = "nan" \/ b.k = "nan" THEN NaN
    ELSE IF a.k = "inf" /\ b.k = "inf" THEN (IF a.v = b.v THEN a ELSE NaN)
    ELSE IF a.k = "inf" THEN a
    ELSE IF b.k = "inf" THEN b
    ELSE Num(a.v + b.v)

FSub(a, b) == FAdd(a, FNeg(b))

FMul(a, b) ==
    IF a.k = "nan" \/ b.k = "nan" THEN NaN
    ELSE IF a.k = "inf" \/ b.k = "inf"
         THEN (IF FSign(a) * FSign(b) = 0 THEN NaN ELSE Inf(FSign(a) * FSign(b)))
    ELSE Num(TDiv(a.v * b.v, Scale))

\* double times a Python int
FMulInt(a, n) ==
    IF a.k = "nan" THEN NaN
    ELSE IF a.k = "inf" THEN (IF n = 0 THEN NaN ELSE Inf(a.v * Sgn(n)))
    ELSE Num(a.v * n)

FDiv(a, b) ==
    IF a.k = "nan" \/ b.k = "nan" THEN NaN
    ELSE IF a.k = "inf" /\ b.k = "inf" THEN NaN
    ELSE IF a.k = "inf" THEN Inf(a.v * (IF FSign(b) < 0 THEN -1 ELSE 1))
    ELSE IF b.k = "inf" THEN Num(0)
    ELSE IF b.v = 0 THEN (IF a.v = 0 THEN NaN ELSE Inf(Sgn(a.v)))
    ELSE Num(TDiv(a.v * Scale, b.v))

\* double divided by a non-zero Python int
FDivInt(a, n) ==
    IF a.k = "num" THEN Num(TDiv(a.v, n))
    ELSE IF a.k = "inf" THEN Inf(a.v * Sgn(n))
    ELSE NaN

\* np.sqrt of a Python int
SqrtInt(n) == IF n < 0 THEN NaN ELSE Num(ISqrt(n * Scale * Scale))

FLe(a, b) ==
    /\ a.k # "nan"
    /\ b.k # "nan"
    /\ \/ a = b
       \/ a.k = "inf" /\ a.v < 0
       \/ b.k = "inf" /\ b.v > 0
       \/ a.k = "num" /\ b.k = "num" /\ a.v <= b.v

FGe(a, b) == FLe(b, a)

----------------------------------------------------------------------------
(* scipy.stats.norm.ppf: the standard normal quantile of p/Scale *)

PpfKnots == <<1, 250, 300, 500, 650, 750, 900, 950, 975, 999>>
PpfValues == <<-3090, -674, -524, 0, 385, 674, 1282, 1645, 1960, 3090>>

norm_ppf(p) ==
    IF p < 0 \/ p > Scale THEN NaN
    ELSE IF p = 0 THEN Inf(-1)
    ELSE IF p = Scale THEN Inf(1)
    ELSE LET i == CHOOSE j \in 1..(Len(PpfKnots) - 1) :
                      PpfKnots[j] <= p /\ p <= PpfKnots[j + 1]
             x0 == PpfKnots[i]
             x1 == PpfKnots[i + 1]
             y0 == PpfValues[i]
             y1 == PpfValues[i + 1]
         IN Num(y0 + TDiv((y1 - y0) * (p - x0), x1 - x0))

----------------------------------------------------------------------------
(* pandas Series: a sequence of [date, value]; a missing value is NaN *)

Values(ts) == [i \in 1..Len(ts) |-> ts[i].value]

RECURSIVE SumObs(_)
SumObs(xs) ==
    IF xs = <<>> THEN 0
    ELSE (IF IsNum(Head(xs)) THEN Head(xs).v ELSE 0) + SumObs(Tail(xs))

RECURSIVE SumSqObs(_)
SumSqObs(xs) ==
    IF xs = <<>> THEN 0
    ELSE (IF IsNum(Head(xs)) THEN Head(xs).v * Head(xs).v ELSE 0) + SumSqObs(Tail(xs))

RECURSIVE CountObs(_)
CountObs(xs) ==
    IF xs = <<>> THEN 0
    ELSE (IF IsNum(Head(xs)) THEN 1 ELSE 0) + CountObs(Tail(xs))

\* Series.mean(): missing values skipped, nan when nothing is left
mean(xs) ==
    LET n == CountObs(xs)
    IN IF n = 0 THEN NaN ELSE Num(TDiv(SumObs(xs), n))

\* the standard deviation with ddof degrees of freedom removed, missing skipped
StdDdof(xs, ddof) ==
    LET n == CountObs(xs)
        s == SumObs(xs)
    IN IF n = 0 \/ n - ddof <= 0 THEN NaN
       ELSE Num(ISqrt(TDiv(n * SumSqObs(xs) - s * s, n * (n - ddof))))

\* Series.std(): sample standard deviation (ddof = 1)
std(xs) == StdDdof(xs, 1)

\* np.std(series): population standard deviation (ddof = 0)
np_std(xs) == StdDdof(xs, 0)

----------------------------------------------------------------------------
(* statsmodels ExponentialSmoothing, as the program uses it.  What the fit  *)
(* returns is opaque: a fitted model is a level, a trend and a seasonal     *)
(* swing, from which fitted values and forecasts follow.                    *)

FittedModels ==
    << [level |-> 3000, trend |-> 0, season |-> 0],
       [level |-> 2000, trend |-> 1000, season |-> 500] >>

ModelAt(m, t) ==
    Num(m.level + m.trend * t + (IF t % 2 = 0 THEN m.season ELSE -m.season))

\* ExponentialSmoothing(ts_data, seasonal_periods=52, trend='add',
\* seasonal='add', use_boxcox=False).fit(): raises, or returns a fitted model.
\* The outcome is a function of the series (and of hw); a series without a
\* single observation cannot be fitted.
ExponentialSmoothing_fit(ts_data) ==
    LET xs == Values(ts_data)
        c == (Len(xs) + TDiv(Abs(SumObs(xs)), Scale) + hw) % (Len(FittedModels) + 1)
    IN IF CountObs(xs) = 0 \/ c = 0
       THEN [raised |-> TRUE, cause |-> "fit failed", model |-> <<>>]
       ELSE [raised |-> FALSE, cause |-> "", model |-> <<FittedModels[c]>>]

\* model.fittedvalues: one fitted value per point of the series
fittedvalues(m, n) == [t \in 1..n |-> ModelAt(m, t)]

\* model.forecast that answers a horizon below 1 with no values at all
model_forecast_empty(m, n, steps) ==
    [raised |-> FALSE, cause |-> "",
     values |-> [j \in 1..steps |-> ModelAt(m, n + j)]]

\* model.forecast(steps): statsmodels predicts from the period after the last
\* one to the steps-th period after it, and raises ValueError when that end
\* lies before the start, which is the case for steps < 1.
model_forecast(m, n, steps) ==
    IF steps < 1
    THEN [raised |-> TRUE, cause |-> "Prediction must have end after start",
          values |-> <<>>]
    ELSE [raised |-> FALSE, cause |-> "",
          values |-> [j \in 1..steps |-> ModelAt(m, n + j)]]

----------------------------------------------------------------------------
(* src/model.py: class InventoryOptimizer.  Every method is an operator     *)
(* from the object (self) and the arguments to a record: the object after   *)
(* the call, how the call ended (kind "return" with value <<v>>, or kind    *)
(* "ValueError" with its message), the methods invoked (trace), the         *)
(* probabilities handed to norm.ppf (ppf) and the library failure, if any.  *)

Returned(self, v, trace, ppf) ==
    [self |-> self, kind |-> "return", message |-> <<>>, value |-> <<v>>,
     trace |-> trace, ppf |-> ppf, libfail |-> ""]

Raises(self, kind, message, trace, ppf, libfail) ==
    [self |-> self, kind |-> kind, message |-> message, value |-> <<>>,
     trace |-> trace, ppf |-> ppf, libfail |-> libfail]

\* InventoryOptimizer.__init__(service_level)
InventoryOptimizer(service_level) ==
    [service_level |-> service_level, model |-> <<>>, forecast_data |-> <<>>]

SeqAdd(xs, d) == [i \in 1..Len(xs) |-> FAdd(xs[i], d)]
SeqSub(xs, ys) == [i \in 1..Len(xs) |-> FSub(xs[i], ys[i])]

\* lines 82-101: the projection and the interval around it
forecast_interval(self1, xs, fc) ==
    IF fc.raised
    THEN Raises(self1, "ValueError", <<"Error in forecasting: ", fc.cause>>,
                <<"forecast_demand">>, <<>>, fc.cause)
    ELSE
    LET forecast == fc.values
        residuals == SeqSub(xs, fittedvalues(self1.model[1], Len(xs)))
        std_error == np_std(residuals)
        p == TDiv(Scale + self1.service_level, 2)
        z_score == norm_ppf(p)
        Bounds(margin_of_error) ==
            [forecast |-> forecast,
             lower_bound |-> SeqAdd(forecast, FNeg(margin_of_error)),
             upper_bound |-> SeqAdd(forecast, margin_of_error),
             historical_mean |-> mean(xs),
             historical_std |-> std(xs)]
        Store(forecast_data) ==
            Returned([self1 EXCEPT !.forecast_data = <<forecast_data>>],
                     forecast_data, <<"forecast_demand">>, <<p>>)
    IN Store(Bounds(FMul(z_score, std_error)))

\* lines 72-83: the fit, kept in self.model, then the projection
forecast_fitted(self, xs, forecast_periods, fit) ==
    IF fit.raised
    THEN Raises(self, "ValueError", <<"Error in forecasting: ", fit.cause>>,
                <<"forecast_demand">>, <<>>, fit.cause)
    ELSE forecast_interval([self EXCEPT !.model = fit.model], xs,
                           model_forecast(fit.model[1], Len(xs), forecast_periods))

\* forecast_demand that keeps the model of an earlier call instead of fitting
forecast_demand_cached(self, ts_data, forecast_periods) ==
    forecast_fitted(self, Values(ts_data), forecast_periods,
                    IF self.model # <<>>
                    THEN [raised |-> FALSE, cause |-> "", model |-> self.model]
                    ELSE ExponentialSmoothing_fit(ts_data))

forecast_demand(self, ts_data, forecast_periods) ==
    forecast_fitted(self, Values(ts_data), forecast_periods,
                    ExponentialSmoothing_fit(ts_data))

calculate_safety_stock(self, ts_data, lead_time_days) ==
    LET xs == Values(ts_data)
        z_score == norm_ppf(self.service_level)
        Policy(daily_demand, demand_std) ==
            LET Result(safety_stock) ==
                    [safety_stock |-> safety_stock,
                     reorder_point |->
                         FAdd(FMulInt(daily_demand, lead_time_days), safety_stock),
                     average_daily_demand |-> daily_demand,
                     demand_std_dev |-> demand_std,
                     service_level |-> self.service_level,
                     lead_time_days |-> lead_time_days]
            IN Result(FMul(FMul(z_score, demand_std), SqrtInt(lead_time_days)))
    IN Returned(self,
                Policy(FDivInt(mean(xs), DaysPerWeek), FDivInt(std(xs), DaysPerWeek)),
                <<"calculate_safety_stock">>, <<self.service_level>>)

estimate_cost_savings(self, ts_data, current_buffer_multiplier) ==
    LET Savings(current_safety_stock, inner) ==
            LET Result(optimized_safety_stock) ==
                    LET Derived(reduction) ==
                            [current_safety_stock |-> current_safety_stock,
                             optimized_safety_stock |-> optimized_safety_stock,
                             reduction |-> reduction,
                             reduction_percentage |->
                                 FMulInt(FDiv(reduction, current_safety_stock), 100)]
                    IN Derived(FSub(current_safety_stock, optimized_safety_stock))
            IN Returned(inner.self,
                        Result(FMulInt(inner.value[1].safety_stock, DaysPerWeek)),
                        <<"estimate_cost_savings">> \o inner.trace, inner.ppf)
    IN Savings(FMul(mean(Values(ts_data)), Num(current_buffer_multiplier)),
               calculate_safety_stock(self, ts_data, DefaultLeadTimeDays))

\* lines 183-193: the record get_recommendations returns
recommendations(ts_data, forecast, safety_stock, cost_savings) ==
    LET Summary(avg, sd) ==
            [avg_weekly_sales |-> avg,
             std_weekly_sales |-> sd,
             coefficient_of_variation |-> FMulInt(FDiv(sd, avg), 100),
             data_points |-> Len(ts_data)]
    IN Returned(cost_savings.self,
                [forecast |-> forecast.value[1],
                 safety_stock |-> safety_stock.value[1],
                 cost_savings |-> cost_savings.value[1],
                 summary |-> Summary(mean(Values(ts_data)), std(Values(ts_data)))],
                <<"get_recommendations">> \o forecast.trace
                    \o safety_stock.trace \o cost_savings.trace,
                forecast.ppf \o safety_stock.ppf \o cost_savings.ppf)

\* lines 180-181, reached when forecast_demand has returned
recommend_policy(ts_data, lead_time_days, forecast) ==
    recommendations(ts_data, forecast,
                    calculate_safety_stock(forecast.self, ts_data, lead_time_days),
                    estimate_cost_savings(forecast.self, ts_data,
                                          DefaultBufferMultiplier))

\* get_recommendations that swallows the exception and goes on with no forecast
recommend_defaulting(ts_data, lead_time_days, forecast) ==
    IF forecast.kind # "return"
    THEN [recommend_policy(ts_data, lead_time_days,
                           [forecast EXCEPT !.kind = "return", !.message = <<>>,
                                            !.value = << <<>> >>])
             EXCEPT !.libfail = forecast.libfail]
    ELSE recommend_policy(ts_data, lead_time_days, forecast)

\* line 179: an exception of forecast_demand leaves get_recommendations at once
recommend(ts_data, lead_time_days, forecast) ==
    IF forecast.kind # "return"
    THEN [forecast EXCEPT !.trace = <<"get_recommendations">> \o forecast.trace]
    ELSE recommend_policy(ts_data, lead_time_days, forecast)

get_recommendations(self, ts_data, forecast_periods, lead_time_days) ==
    recommend(ts_data, lead_time_days,
              forecast_demand(self, ts_data, forecast_periods))

Min(S) == CHOOSE x \in S : \A y \in S : x <= y
Max(S) == CHOOSE x \in S : \A y \in S : y <= x

\* pd.date_range(lo, hi, freq='W-FRI'): the Fridays from lo to hi.  A date is a
\* day number whose weekday is date % 7, Monday being 0.
date_range_W_FRI(lo, hi) ==
    LET start == lo + ((FRI - lo) % DaysPerWeek)
        n == IF start > hi THEN 0 ELSE ((hi - start) \div DaysPerWeek) + 1
    IN [i \in 1..n |-> start + DaysPerWeek * (i - 1)]

\* df is a set of rows [Store, Dept, Date, Weekly_Sales]: asfreq reindexes by
\* label, so the order sort_values leaves the rows in does not reach the result.
prepare_data(self, df, store_id, dept_id) ==
    LET filtered_df == {r \in df : r.Store = store_id /\ r.Dept = dept_id}
        index == {r.Date : r \in filtered_df}
    IN IF filtered_df = {}
       THEN Returned(self, <<>>, <<"prepare_data">>, <<>>)
       ELSE IF Cardinality(index) < Cardinality(filtered_df)
       THEN Raises(self, "ValueError",
                   <<"cannot reindex on an axis with duplicate labels">>,
                   <<"prepare_data">>, <<>>, "")
       ELSE
       LET dti == date_range_W_FRI(Min(index), Max(index))
           ts_data ==
               [i \in 1..Len(dti) |->
                   [date |-> dti[i],
                    value |->
                        IF dti[i] \in index
                        THEN Num((CHOOSE r \in filtered_df : r.Date = dti[i]).Weekly_Sales)
                        ELSE NaN]]
       IN Returned(self, ts_data, <<"prepare_data">>, <<>>)

----------------------------------------------------------------------------
(* src/app.py: the /predict handler *)

\* data.get(key, default)
Get(data, key, default) == IF key \in DOMAIN data THEN data[key] ELSE default

jsonify(status, error, message, body) ==
    [status |-> status, error |-> error, message |-> message, body |-> body]

Handled(resp, r, ts) ==
    [response |-> resp, trace |-> r.trace, ppf |-> r.ppf, libfail |-> r.libfail,
     series |-> ts]

\* lines 83-103: the response to what get_recommendations did
respond(parameters, ts_data, rec) ==
    IF rec.kind = "ValueError"
    THEN Handled(jsonify(400, "Validation error", rec.message, <<>>), rec, ts_data.value)
    ELSE IF rec.kind # "return"
    THEN Handled(jsonify(500, "Internal server error", rec.message, <<>>),
                 rec, ts_data.value)
    ELSE Handled(jsonify(200, "", <<>>,
                     << [recommendations |-> rec.value[1],
                         parameters |-> parameters] >>),
                 rec, ts_data.value)

WithTrace(rec, trace) == [rec EXCEPT !.trace = trace \o rec.trace]

\* the handler without its check of the length of the series
recommend_for_unchecked(parameters, ts_data) ==
    IF ts_data.kind = "ValueError"
    THEN Handled(jsonify(400, "Validation error", ts_data.message, <<>>),
                 ts_data, <<>>)
    ELSE respond(parameters, ts_data,
                 WithTrace(get_recommendations(ts_data.self, ts_data.value[1],
                                               parameters.forecast_periods,
                                               parameters.lead_time_days),
                           ts_data.trace))

\* lines 70-81: no series, no recommendation
recommend_for(parameters, ts_data) ==
    IF ts_data.kind = "ValueError"
    THEN Handled(jsonify(400, "Validation error", ts_data.message, <<>>),
                 ts_data, <<>>)
    ELSE IF Len(ts_data.value[1]) = 0
    THEN Handled(jsonify(404, "No data found", <<"No data available">>, <<>>),
                 ts_data, ts_data.value)
    ELSE respond(parameters, ts_data,
                 WithTrace(get_recommendations(ts_data.self, ts_data.value[1],
                                               parameters.forecast_periods,
                                               parameters.lead_time_days),
                           ts_data.trace))

\* lines 54-68
serve(parameters, file_exists, df) ==
    IF ~file_exists
    THEN [response |-> jsonify(404, "Training data file not found",
                               <<"Please ensure Train.csv is available">>, <<>>),
          trace |-> <<>>, ppf |-> <<>>, libfail |-> "", series |-> <<>>]
    ELSE recommend_for(parameters,
                       prepare_data(InventoryOptimizer(parameters.service_level), df,
                                    parameters.store_id, parameters.dept_id))

predict(data, file_exists, df) ==
    serve([store_id |-> Get(data, "store_id", DefaultStoreId),
           dept_id |-> Get(data, "dept_id", DefaultDeptId),
           forecast_periods |-> Get(data, "forecast_periods", DefaultForecastPeriods),
           lead_time_days |-> Get(data, "lead_time_days", DefaultLeadTimeDays),
           service_level |-> Get(data, "service_level", DefaultServiceLevel)],
          file_exists, df)

----------------------------------------------------------------------------
(* Inputs *)

\* service levels in units of 1/Scale: below 0, the bounds 0 and 1, inside
\* (0, 1) on either side of 0.5, above 1
ServiceLevels == {-500, 0, 300, 950, 1000, 1500}

Periods == -1..MaxPeriods

LeadTimes == {0, DefaultLeadTimeDays, 14}

Multipliers == {1000, DefaultBufferMultiplier}

\* weekly series on consecutive Fridays with values from V
SeriesOver(V) ==
    UNION { { [i \in 1..n |-> [date |-> FRI + DaysPerWeek * (i - 1), value |-> f[i]]] :
                f \in [1..n -> V] } : n \in 0..MaxLen }

\* the series handed to the forecaster: missing, zero and positive demand
SeriesSet == SeriesOver({NaN, Num(0), Num(6000)})

\* the series handed to the policy calculator: also negative sales (returns)
PolicySeries == SeriesOver({NaN, Num(-3000), Num(0), Num(6000)})

\* rows of Train.csv: store 1 on two Fridays a fortnight apart, on the Friday
\* between them and on a Monday; store 2 on a Friday
Rows ==
    { [Store |-> 1, Dept |-> 1, Date |-> d, Weekly_Sales |-> w] :
          d \in {4, 7, 11, 18}, w \in {2000, 6000} }
    \cup { [Store |-> 2, Dept |-> 1, Date |-> 4, Weekly_Sales |-> 2000] }

DataFrames == {df \in SUBSET Rows : Cardinality(df) <= MaxRecords}

StoreIds == {1, 99}

Requests ==
    [store_id : StoreIds, dept_id : {1}, forecast_periods : Periods,
     lead_time_days : LeadTimes, service_level : ServiceLevels]
    \cup [service_level : ServiceLevels]
    \cup [forecast_periods : Periods]

----------------------------------------------------------------------------
(* The state machine *)

NoResponse == jsonify(0, "", <<>>, <<>>)

Called(op, args, r) ==
    [op |-> op, args |-> args, model_before |-> optimizer.model,
     kind |-> r.kind, message |-> r.message, value |-> r.value,
     trace |-> r.trace, ppf |-> r.ppf, libfail |-> r.libfail]

Init ==
    /\ hw \in 0..Len(FittedModels)
    /\ optimizer = InventoryOptimizer(DefaultServiceLevel)
    /\ call = Idle
    /\ response = NoResponse

\* a method of the optimizer runs to its end
Finish(op, args, r) ==
    /\ optimizer' = r.self
    /\ call' = Called(op, args, r)
    /\ UNCHANGED <<hw, response>>

Answer(data, file_exists, df, h) ==
    /\ call' = [op |-> "predict",
                args |-> [data |-> data, file_exists |-> file_exists, df |-> df],
                service_level |-> Get(data, "service_level", DefaultServiceLevel),
                forecast_periods |->
                    Get(data, "forecast_periods", DefaultForecastPeriods),
                trace |-> h.trace, ppf |-> h.ppf, libfail |-> h.libfail,
                series |-> h.series]
    /\ response' = h.response
    /\ UNCHANGED <<hw, optimizer>>

\* POST /predict: one request, handled from start to finish with an optimizer
\* of its own
Predict ==
    /\ call = Idle
    /\ \E data \in Requests, file_exists \in BOOLEAN, df \in DataFrames :
          Answer(data, file_exists, df, predict(data, file_exists, df))

\* optimizer = InventoryOptimizer(service_level)
Construct ==
    /\ call = Idle
    /\ \E service_level \in ServiceLevels :
          /\ optimizer' = InventoryOptimizer(service_level)
          /\ call' = [op |-> "__init__", args |-> [service_level |-> service_level]]
    /\ UNCHANGED <<hw, response>>

PrepareData ==
    /\ call = Idle
    /\ \E df \in DataFrames, store_id \in StoreIds :
          Finish("prepare_data",
                 [df |-> df, store_id |-> store_id, dept_id |-> DefaultDeptId],
                 prepare_data(optimizer, df, store_id, DefaultDeptId))

ForecastDemand ==
    /\ call = Idle
    /\ \E ts_data \in SeriesSet, forecast_periods \in Periods :
          Finish("forecast_demand",
                 [ts_data |-> ts_data, forecast_periods |-> forecast_periods],
                 forecast_demand(optimizer, ts_data, forecast_periods))

CalculateSafetyStock ==
    /\ call = Idle
    /\ \E ts_data \in PolicySeries, lead_time_days \in LeadTimes \cup {-1} :
          Finish("calculate_safety_stock",
                 [ts_data |-> ts_data, lead_time_days |-> lead_time_days],
                 calculate_safety_stock(optimizer, ts_data, lead_time_days))

EstimateCostSavings ==
    /\ call = Idle
    /\ \E ts_data \in PolicySeries, current_buffer_multiplier \in Multipliers :
          Finish("estimate_cost_savings",
                 [ts_data |-> ts_data,
                  current_buffer_multiplier |-> current_buffer_multiplier],
                 estimate_cost_savings(optimizer, ts_data, current_buffer_multiplier))

GetRecommendations ==
    /\ call = Idle
    /\ \E ts_data \in SeriesSet, forecast_periods \in Periods,
          lead_time_days \in LeadTimes :
          Finish("get_recommendations",
                 [ts_data |-> ts_data, forecast_periods |-> forecast_periods,
                  lead_time_days |-> lead_time_days],
                 get_recommendations(optimizer, ts_data, forecast_periods,
                                     lead_time_days))

\* the operation in progress ends: its result goes to the caller
Return ==
    /\ call # Idle
    /\ call' = Idle
    /\ response' = NoResponse
    /\ UNCHANGED <<hw, optimizer>>

\* the web service of src/app.py
Next == Predict \/ Return

Spec == Init /\ [][Next]_vars

\* the forecaster of src/model.py, called directly on one optimizer after another
NextOptimizer ==
    \/ Construct
    \/ ForecastDemand
    \/ GetRecommendations
    \/ Return

SpecOptimizer == Init /\ [][NextOptimizer]_vars

\* series preparation and the policy calculator of src/model.py, called directly
NextPolicy ==
    \/ Construct
    \/ PrepareData
    \/ CalculateSafetyStock
    \/ EstimateCostSavings
    \/ Return

SpecPolicy == Init /\ [][NextPolicy]_vars

----------------------------------------------------------------------------
(* Properties *)

Invoked(name) == \E i \in DOMAIN call.trace : call.trace[i] = name

ValidServiceLevel(service_level) == 0 < service_level /\ service_level < Scale

Observed(ts_data) == CountObs(Values(ts_data))

NonNegative(ts_data) ==
    \A i \in DOMAIN ts_data : IsNum(ts_data[i].value) => ts_data[i].value.v >= 0

\* the rows of the request's data frame that match its store and department
Matching ==
    {r \in call.args.df :
        /\ r.Store = Get(call.args.data, "store_id", DefaultStoreId)
        /\ r.Dept = Get(call.args.data, "dept_id", DefaultDeptId)}

\* C1: a call of get_recommendations or forecast_demand with a horizon of zero
\* or less ends in a ValueError and returns nothing, so never a result with
\* empty forecast, lower_bound and upper_bound sequences.
C1_NonPositiveHorizonRejected ==
    (/\ call.op \in {"get_recommendations", "forecast_demand"}
     /\ call.args.forecast_periods <= 0)
    => /\ call.kind = "ValueError"
       /\ call.value = <<>>

\* a horizon of zero on a series the fit accepted: the projection refused it
C1_Witness ==
    /\ call.op = "get_recommendations"
    /\ call.args.forecast_periods = 0
    /\ call.kind = "ValueError"
    /\ call.libfail = "Prediction must have end after start"
    /\ optimizer.model # <<>>

\* C2: a request whose service_level is not inside (0, 1) is rejected before
\* use: no probability derived from it reaches norm.ppf and the response is
\* not a recommendation.
C2_InvalidServiceLevelRejected ==
    (/\ call.op = "predict"
     /\ ~ValidServiceLevel(call.service_level))
    => /\ call.ppf = <<>>
       /\ response.status # 200

\* C3: for non-negative demand, a service level in (0, 1) and a lead time of
\* at least 0, calculate_safety_stock returns safety_stock >= 0,
\* reorder_point >= 0 and reorder_point >= safety_stock.  Stated for series of
\* two observations or more, whose mean and standard deviation are defined.
C3_PolicyNonNegative ==
    (/\ call.op = "calculate_safety_stock"
     /\ call.kind = "return"
     /\ NonNegative(call.args.ts_data)
     /\ Observed(call.args.ts_data) >= 2
     /\ ValidServiceLevel(optimizer.service_level)
     /\ call.args.lead_time_days >= 0)
    => /\ FGe(call.value[1].safety_stock, Num(0))
       /\ FGe(call.value[1].reorder_point, Num(0))
       /\ FGe(call.value[1].reorder_point, call.value[1].safety_stock)

\* C4: a Forecast Result for horizon N holds N forecasts, N lower and N upper
\* bounds, with lower_bound[i] <= forecast[i] <= upper_bound[i] at every i.
C4_ForecastWithinBounds ==
    (/\ call.op = "forecast_demand"
     /\ call.kind = "return")
    => /\ Len(call.value[1].forecast) = call.args.forecast_periods
       /\ Len(call.value[1].lower_bound) = call.args.forecast_periods
       /\ Len(call.value[1].upper_bound) = call.args.forecast_periods
       /\ \A i \in 1..call.args.forecast_periods :
             /\ FLe(call.value[1].lower_bound[i], call.value[1].forecast[i])
             /\ FLe(call.value[1].forecast[i], call.value[1].upper_bound[i])

\* C5: when no row matches the requested store and department, prepare_data
\* returns the empty series without raising, and the handler answers No data
\* found having invoked nothing but prepare_data.
C5_NoDataShortCircuit ==
    (/\ call.op = "predict"
     /\ call.args.file_exists
     /\ Matching = {})
    => /\ call.series = << <<>> >>
       /\ call.trace = <<"prepare_data">>
       /\ call.ppf = <<>>
       /\ response.status = 404
       /\ response.error = "No data found"
       /\ response.body = <<>>

\* a request for a store the data frame has rows of, but not the one asked for
C5_Witness ==
    /\ call.op = "predict"
    /\ call.args.file_exists
    /\ call.args.df # {}
    /\ Matching = {}
    /\ response.status = 404
    /\ call.trace = <<"prepare_data">>

\* C6: when the fit or the projection fails inside forecast_demand,
\* get_recommendations ends at once with a validation error that carries the
\* cause: the handler answers 400 with it, no recommendation is returned and
\* neither calculate_safety_stock nor estimate_cost_savings runs.
C6_FitFailureSurfaces ==
    (/\ call.op = "predict"
     /\ call.libfail # "")
    => /\ response.status = 400
       /\ response.error = "Validation error"
       /\ response.message = <<"Error in forecasting: ", call.libfail>>
       /\ response.body = <<>>
       /\ call.trace = <<"prepare_data", "get_recommendations", "forecast_demand">>

\* a request with a positive horizon on which the fit itself failed
C6_Witness ==
    /\ call.op = "predict"
    /\ call.libfail = "fit failed"
    /\ call.forecast_periods > 0
    /\ Observed(call.series[1]) > 0
    /\ response.status = 400

\* C7: for a series without a single value, calculate_safety_stock and
\* estimate_cost_savings fail with a validation error instead of returning a
\* result with not-a-number fields.
C7_UndefinedStatisticsRejected ==
    (/\ call.op \in {"calculate_safety_stock", "estimate_cost_savings"}
     /\ Observed(call.args.ts_data) = 0)
    => call.kind = "ValueError"

\* the rows prepare_data was asked for
Selected ==
    {r \in call.args.df :
        r.Store = call.args.store_id /\ r.Dept = call.args.dept_id}

WeekOf(r) == ((r.Date - Min({x.Date : x \in Selected})) \div DaysPerWeek) + 1

\* C8: for matching rows, the series prepare_data returns steps by exactly one
\* week, is as long as the number of calendar weeks from the first to the last
\* observed date, carries each row's weekly_sales in the row's week, and is
\* missing in every week without a row.
C8_WeeklyGrid ==
    (/\ call.op = "prepare_data"
     /\ call.kind = "return"
     /\ Selected # {})
    => /\ \A i \in 1..(Len(call.value[1]) - 1) :
             call.value[1][i + 1].date = call.value[1][i].date + DaysPerWeek
       /\ Len(call.value[1]) = WeekOf(CHOOSE r \in Selected :
                                          \A x \in Selected : x.Date <= r.Date)
       /\ \A r \in Selected :
             /\ WeekOf(r) \in 1..Len(call.value[1])
             /\ call.value[1][WeekOf(r)].value = Num(r.Weekly_Sales)
       /\ \A i \in 1..Len(call.value[1]) :
             (\A r \in Selected : WeekOf(r) # i) => IsNaN(call.value[1][i].value)

\* C9: what get_recommendations returns, or raises, is what a newly made
\* optimizer with the same service level returns for the same series and
\* parameters: self.model and self.forecast_data of earlier calls do not reach
\* the result, and two calls with the same arguments end the same.
C9_NoHiddenState ==
    call.op = "get_recommendations"
    => LET fresh == get_recommendations(InventoryOptimizer(optimizer.service_level),
                                        call.args.ts_data,
                                        call.args.forecast_periods,
                                        call.args.lead_time_days)
       IN /\ call.kind = fresh.kind
          /\ call.message = fresh.message
          /\ call.value = fresh.value

\* a recommendation returned by an optimizer that held the model of another fit
C9_Witness ==
    /\ call.op = "get_recommendations"
    /\ call.kind = "return"
    /\ call.model_before # <<>>
    /\ call.model_before # optimizer.model

\* C10: in a Recommendation, cost_savings.optimized_safety_stock is 7 times the
\* safety_stock of its Safety Stock Result, for every lead time, and reduction
\* is current_safety_stock minus optimized_safety_stock, not floored at zero.
C10_OptimizedIsWeeklySafetyStock ==
    (/\ call.op = "get_recommendations"
     /\ call.kind = "return")
    => /\ call.value[1].cost_savings.optimized_safety_stock
              = FMulInt(call.value[1].safety_stock.safety_stock, DaysPerWeek)
       /\ call.value[1].cost_savings.reduction
              = FSub(call.value[1].cost_savings.current_safety_stock,
                     call.value[1].cost_savings.optimized_safety_stock)

====
